---- MODULE Spec2Model ----
(***************************************************************************)
(* A model of nucleus: the membership / follow state of personas and       *)
(* movements with its memoized read paths (identity.py), the promotion     *)
(* engine of a movement (identity.py) and the attachment extraction        *)
(* helpers (helpers.py).                                                   *)
(*                                                                         *)
(* Several specifications share the variables:                             *)
(*   Spec       membership, follow edges and the memoized views, every     *)
(*              handler atomic (mutation, invalidation and commit);        *)
(*   SpecRace   one membership toggle split into its steps (mutate,        *)
(*              invalidate, commit) interleaved with cached reads made by  *)
(*              other sessions;                                            *)
(*   SpecPromo  promotion_check / voting_done with upvote and membership   *)
(*              toggles on small movements;                                *)
(*   SpecUpvotes upvote toggles and reads of the upvote count;             *)
(*   SpecVotes  required_votes / promotion_check / voting_done on          *)
(*              movements of the sizes the documentation names;            *)
(*   SpecViews  follow and membership toggles with reads of the memoized   *)
(*              frontpage_sources and member_count;                        *)
(*   SpecTags   find_tags on every short text over a small alphabet;       *)
(*   SpecAttach process_attachments and find_links on texts built from a   *)
(*              few tokens;                                                *)
(*   SpecPromoRace promotion checks in two requests at once;               *)
(*   SpecMentions find_mentions and process_attachments on texts of        *)
(*              mentions and near-mentions;                                *)
(*   SpecSubmit submissions naming the same page, one after the other;     *)
(*   SpecSessions the same submissions made by two sessions at once.       *)
(***************************************************************************)
EXTENDS Integers, Sequences, FiniteSets, TLC

VARIABLES
    mmas,            \* committed MovementMemberAssociation rows, in id order
    blogs_followed,  \* Identity.blogs_followed of every persona
    cache,           \* the memoize store: key -> {} (miss) or {value}
    tm,              \* the membership toggle in flight (SpecRace)
    upvotes,         \* per thought: its upvote children, in creation order
    counted,         \* per thought: the count kept in Thought._upvotes
    toggles,         \* per (author, thought): the toggle_upvote calls, mod 2
    blogged,         \* per thought: Thought._blogged
    clones,          \* per (thought, movement): the clones promotion_check created
    sent,            \* number of movement_chat messages sent
    checks,          \* per session: the promotion_check past its tests
    text,            \* the text handed to the extraction helpers
    http,            \* what a HEAD request to each URL ends in
    store,           \* the committed link percept rows
    pending,         \* per session: the new link percepts not yet committed
    last             \* the latest operation and what it returned

idVars    == <<mmas, blogs_followed, cache, tm>>
promoVars == <<upvotes, counted, toggles, blogged, clones, sent, checks>>
textVars  == <<text, http, store, pending>>
vars      == <<mmas, blogs_followed, cache, tm,
               upvotes, counted, toggles, blogged, clones, sent, checks,
               text, http, store, pending,
               last>>

(***************************************************************************)
(* Universe                                                                *)
(***************************************************************************)
\* identities are <<kind, number>>
P(n) == <<"persona", n>>
M(n) == <<"movement", n>>
Personas  == {P(1), P(2)}
Movements == {M(1), M(2)}
NoPersona == P(0)

\* Movement.admin_id and Movement.private: movement n was founded by
\* persona n, and the second movement is private
admin_id(m) == P(m[2])
private(m)  == m = M(2)

\* Identity.mindspace_id and Identity.blog_id
mindspace_id(i) == <<"mindspace", i>>
blog_id(i)      == <<"blog", i>>

\* invitation codes; None is the absent argument / NULL column
None  == "None"
Codes == {None, "", "k1", "k2"}
Roles == {"member"}

MaxMma == 4

\* a MovementMemberAssociation row (active defaults to True, role to "member")
MovementMemberAssociation(p, m, role) ==
    [persona |-> p, movement |-> m, active |-> TRUE, role |-> role,
     invitation_code |-> None]

\* an invitation waiting to be redeemed
Invitation(p, m, code) ==
    [persona |-> p, movement |-> m, active |-> FALSE, role |-> "invited",
     invitation_code |-> code]

Min(S) == CHOOSE x \in S : \A y \in S : x <= y

\* Query.first() over the rows in id order; 0 when there is none
First(S) == IF S = {} THEN 0 ELSE Min(S)

(***************************************************************************)
(* Queries                                                                 *)
(***************************************************************************)
\* Movement.active_member(persona)
active_member(rows, m, p) ==
    /\ p # NoPersona
    /\ \E i \in DOMAIN rows :
          rows[i].persona = p /\ rows[i].active /\ rows[i].movement = m

\* the query of Movement.member_count
CountMembers(rows, m) ==
    Cardinality({i \in DOMAIN rows : rows[i].movement = m /\ rows[i].active})

\* the query of Persona.movements: it filters on the session's active persona
QueryMovements(rows, cu) ==
    {m \in Movements : \E i \in DOMAIN rows :
        rows[i].movement = m /\ rows[i].active /\ rows[i].persona = cu}

\* the body of Persona.frontpage_sources
QueryFrontpageSources(rows, follows, p) ==
    {mindspace_id(s) : s \in {x \in follows[p] \cap Movements :
                                 active_member(rows, x, p)}}
      \cup {blog_id(s) : s \in follows[p]}

(***************************************************************************)
(* The memoize store                                                       *)
(***************************************************************************)
CacheKeys ==
    {<<"member_count", m>> : m \in Movements}
      \cup {<<f, p>> : f \in {"movements", "repost_mindsets", "frontpage_sources"},
                       p \in Personas}

EmptyCache == [k \in CacheKeys |-> {}]

\* cache.delete_memoized(bound method)
delete_memoized(c, k) == [c EXCEPT ![k] = {}]

\* cache.memoize: the stored value when there is one, else the computed one
Memo(c, k, v) == IF c[k] # {} THEN CHOOSE x \in c[k] : TRUE ELSE v
MemoStore(c, k, v) == IF c[k] # {} THEN c ELSE [c EXCEPT ![k] = {v}]

(***************************************************************************)
(* Persona.toggle_following                                                *)
(***************************************************************************)
\* the follow set after the toggle
FollowFlip(follows, p, ident) ==
    IF ident \in follows[p]
    THEN [follows EXCEPT ![p] = @ \ {ident}]
    ELSE [follows EXCEPT ![p] = @ \cup {ident}]

(***************************************************************************)
(* Persona.toggle_movement_membership                                      *)
(***************************************************************************)
\* the row the call works on (0: none)
LookupMma(rows, p, m, code) ==
    IF code # None /\ code # ""
    THEN First({i \in DOMAIN rows : rows[i].invitation_code = code})
    ELSE First({i \in DOMAIN rows :
                  rows[i].movement = m /\ rows[i].persona = p})

\* lines 455-494: everything up to the cache reset
TMMutate(cu, p, m, role, code, rows, follows, c) ==
    LET i       == LookupMma(rows, p, m, code)
        follow  == m \notin follows[p] /\ (i = 0 \/ ~rows[i].active)
        follows1 == IF follow THEN FollowFlip(follows, p, m) ELSE follows
        c1      == IF follow THEN delete_memoized(c, <<"frontpage_sources", p>>)
                   ELSE c
        check   == i = 0 \/ (~rows[i].active /\ rows[i].invitation_code # code)
    IN  IF check /\ private(m) /\ cu # admin_id(m)
        THEN [mmas |-> rows, follows |-> follows1, cache |-> c1,
              raised |-> "UnauthorizedError", rv |-> 0]
        ELSE IF i = 0
        THEN [mmas |-> Append(rows, MovementMemberAssociation(p, m, role)),
              follows |-> follows1, cache |-> c1,
              raised |-> "none", rv |-> Len(rows) + 1]
        ELSE IF ~rows[i].active
        THEN [mmas |-> [rows EXCEPT ![i].active = TRUE, ![i].role = role],
              follows |-> follows1, cache |-> c1, raised |-> "none", rv |-> i]
        ELSE IF p = admin_id(m)
        THEN [mmas |-> rows, follows |-> follows1, cache |-> c1,
              raised |-> "NotImplementedError", rv |-> 0]
        ELSE [mmas |-> [rows EXCEPT ![i].active = FALSE, ![i].role = "left"],
              follows |-> follows1, cache |-> c1, raised |-> "none", rv |-> i]

\* lines 496-500: the cache reset; mm is the movement argument
TMInvalidate(c, p, mm) ==
    delete_memoized(
      delete_memoized(
        delete_memoized(
          delete_memoized(c, <<"member_count", mm>>),
          <<"movements", p>>),
        <<"repost_mindsets", p>>),
      <<"frontpage_sources", p>>)

(***************************************************************************)
(* Thoughts (content.py), as far as the promotion engine reads them        *)
(***************************************************************************)
Thoughts == {"t1", "t2", "t3"}

NoMindset == <<"none", NoPersona>>

\* Thought.mindset: t1 sits in the first movement's mindspace, t2 in the
\* second movement's mindspace, t3 in the first movement's blog
mindset(t) ==
    CASE t = "t1" -> mindspace_id(M(1))
      [] t = "t2" -> mindspace_id(M(2))
      [] OTHER    -> blog_id(M(1))

\* Mindset.kind
kind(ms) == ms[1]

\* an upvote child of a thought (state 0: active)
Upvote(a) == [author |-> a, active |-> TRUE]

\* the authors that hold at least one active upvote on t
ActiveAuthors(ups, t) ==
    {ups[t][i].author : i \in {j \in DOMAIN ups[t] : ups[t][j].active}}

\* Thought.upvote_count() when nothing is kept in _upvotes: the number of
\* active upvote children
upvote_count(ups, t) ==
    Cardinality({i \in DOMAIN ups[t] : ups[t][i].active})

\* a variant that never finds the author's upvote
FindUpvote_Nothing(rows, a) == 0

\* the lookup of toggle_upvote: the author's upvote child (0: none)
FindUpvote(rows, a) ==
    First({j \in DOMAIN rows : rows[j].author = a})

\* Thought._upvotes = None
NoCount == 0 - 1

(***************************************************************************)
(* Movement.required_votes                                                 *)
(*                                                                         *)
(* int(c / 100.0 + 0.8 / c + log(c, 1.65)) is evaluated in fixed point,    *)
(* four decimal digits, every division rounding down.  The result equals   *)
(* the floating point one for every c from 1 to 1534.                      *)
(***************************************************************************)
Scale == 10000

\* the odd-power series z + z^3/3 + ... + z^9/9, terms scaled by Scale
RECURSIVE LnSeries(_, _, _)
LnSeries(t, z2, k) ==
    IF k > 9 THEN 0
    ELSE (t \div k) + LnSeries((t * z2) \div Scale, z2, k + 2)

\* math.log(x) for x in [1, 1.65], x and the result scaled by Scale:
\* ln x = 2 artanh((x - 1) / (x + 1))
LnFx(x) ==
    LET z  == ((x - Scale) * Scale) \div (x + Scale)
        z2 == (z * z) \div Scale
    IN  2 * LnSeries(z, z2, 1)

\* divide x by 1.65 until it is below 1.65; n counts the divisions
RECURSIVE Reduce165(_, _)
Reduce165(x, n) ==
    IF x * 100 >= 165 * Scale THEN Reduce165((x * 100) \div 165, n + 1)
    ELSE <<x, n>>

\* math.log(c, 1.65) for c >= 1, scaled by Scale
Log165Fx(c) ==
    LET r == Reduce165(c * Scale, 0)
    IN  r[2] * Scale + (LnFx(r[1]) * Scale) \div LnFx((165 * Scale) \div 100)

\* a variant that rounds to the nearest integer, as the docstring words it
RequiredVotes_Rounded(c) ==
    IF c > 0
    THEN ((c * Scale) \div 100 + (8 * Scale) \div (10 * c) + Log165Fx(c)
            + Scale \div 2) \div Scale
    ELSE 1

\* line 773, c being self.member_count()
RequiredVotes(c) ==
    IF c > 0
    THEN ((c * Scale) \div 100 + (8 * Scale) \div (10 * c) + Log165Fx(c))
            \div Scale
    ELSE 1

(***************************************************************************)
(* Movement.promotion_check and Movement.voting_done                       *)
(***************************************************************************)
\* a variant that forgets the promoted flag
PromotionCandidate_NoFlag(isBlogged, ms) ==
    ms # NoMindset /\ kind(ms) = "mindspace"

\* lines 739-740: the thought is a candidate for promotion
PromotionCandidate(isBlogged, ms) ==
    ~isBlogged /\ ms # NoMindset /\ kind(ms) = "mindspace"

\* a variant that asks for one vote more than required
EnoughVotes_Strict(count, req) == count > req

\* line 741
EnoughVotes(count, req) == count >= req

\* a variant without the req > 0 guard
VotingDoneValue_NoGuard(isBlogged, count, req, req2) ==
    IF isBlogged THEN <<1, 1>>
    ELSE IF req2 = 0 THEN <<count, 0>>
         ELSE IF count >= req2 THEN <<1, 1>> ELSE <<count, req2>>

\* lines 809-817; a ratio is <<numerator, denominator>>, req is the first
\* and req2 the second evaluation of self.required_votes()
VotingDoneValue(isBlogged, count, req, req2) ==
    IF isBlogged THEN <<1, 1>>
    ELSE IF req > 0
         THEN IF req2 = 0 THEN <<count, 0>>
              ELSE IF count >= req2 THEN <<1, 1>> ELSE <<count, req2>>
         ELSE <<1, 1>>

(***************************************************************************)
(* Text helpers (helpers.py).  A text is a sequence of characters.         *)
(***************************************************************************)
\* \s and \S of the regular expressions
IsSpace(ch) == ch = " "

\* \w of the regular expressions
IsWord(ch) == ch \notin {" ", "#", "@", ":", "/", "."}

\* str.rstrip()
RECURSIVE rstrip(_)
rstrip(s) ==
    IF s # <<>> /\ IsSpace(s[Len(s)]) THEN rstrip(SubSeq(s, 1, Len(s) - 1))
    ELSE s

\* sub occurs in s at the 1-based position i
OccursAt(s, sub, i) ==
    i + Len(sub) - 1 <= Len(s) /\ SubSeq(s, i, i + Len(sub) - 1) = sub

\* str.index(sub), 0-based; -1 stands for the ValueError of a missing sub
index(s, sub) ==
    LET I == {i \in 1..(Len(s) + 1) : OccursAt(s, sub, i)}
    IN  IF I = {} THEN -1 ELSE Min(I) - 1

\* str.replace(sub, ""): every occurrence, left to right
RECURSIVE RemoveFrom(_, _, _)
RemoveFrom(s, sub, i) ==
    IF i > Len(s) THEN <<>>
    ELSE IF OccursAt(s, sub, i) THEN RemoveFrom(s, sub, i + Len(sub))
    ELSE <<s[i]>> \o RemoveFrom(s, sub, i + 1)

remove(s, sub) == RemoveFrom(s, sub, 1)

\* sequence[::-1]
reversed(q) == [i \in 1..Len(q) |-> q[Len(q) + 1 - i]]

\* the end of the greedy run \S{0,max} that starts at i (i - 1: empty run)
RECURSIVE RunEnd(_, _, _)
RunEnd(s, i, max) ==
    IF max = 0 \/ i > Len(s) \/ IsSpace(s[i]) THEN i - 1
    ELSE RunEnd(s, i + 1, max - 1)

MaxTagLen == 32
MinMentionLen == 3
MaxMentionLen == 80

\* re.findall of a marker character followed by lo to hi non-space
\* characters: the <<start, end>> spans of the matches, marker included
RECURSIVE FindMarked(_, _, _, _, _)
FindMarked(s, mark, lo, hi, i) ==
    IF i > Len(s) THEN <<>>
    ELSE LET e == RunEnd(s, i + 1, hi)
         IN  IF s[i] = mark /\ e - i >= lo
             THEN <<<<i, e>>>> \o FindMarked(s, mark, lo, hi, e + 1)
             ELSE FindMarked(s, mark, lo, hi, i + 1)

\* the groups of the matches: the text after the marker
Groups(s, spans) == [n \in 1..Len(spans) |->
                        SubSeq(s, spans[n][1] + 1, spans[n][2])]

\* re.findall("#([\S]{1,32})", text) with the positions of the matches
TagSpans(s) == FindMarked(s, "#", 1, MaxTagLen, 1)

(***************************************************************************)
(* find_tags                                                               *)
(***************************************************************************)
\* a variant that strips every tag, wherever it sits
RECURSIVE StripTags_Everywhere(_, _, _)
StripTags_Everywhere(rv, n, text_new) ==
    IF n > Len(rv) THEN text_new
    ELSE StripTags_Everywhere(rv, n + 1, remove(text_new, <<"#">> \o rv[n]))

\* lines 108-110: the loop over the reversed tags; the text becomes the
\* marker <<"ValueError">> when text_new.index(tag) finds nothing
RECURSIVE StripTags(_, _, _)
StripTags(rv, n, text_new) ==
    IF n > Len(rv) \/ text_new = <<"ValueError">> THEN text_new
    ELSE LET tag == rv[n]
             at  == index(text_new, tag)
         IN  IF at = -1 THEN <<"ValueError">>
             ELSE IF at + Len(tag) = Len(rstrip(text_new))
                  THEN StripTags(rv, n + 1, remove(text_new, <<"#">> \o tag))
                  ELSE StripTags(rv, n + 1, text_new)

\* line 107: the list that is looped over and returned
TagList(s) == reversed(Groups(s, TagSpans(s)))

\* find_tags(text): the returned pair, or the error raised
FindTags(s) ==
    LET rv       == TagList(s)
        text_new == StripTags(rv, 1, s)
    IN  IF text_new = <<"ValueError">>
        THEN [tags |-> rv, text |-> s, raised |-> "ValueError"]
        ELSE [tags |-> rv, text |-> IF Len(text_new) > 0 THEN text_new ELSE s,
              raised |-> "none"]

(***************************************************************************)
(* find_mentions                                                           *)
(***************************************************************************)
Bob == <<"b", "o", "b">>
Amy == <<"a", "m", "y">>

\* Identity.query.filter_by(username=...).first(): bob is the first persona
\* and amy the second
IdentityByUsername(name) ==
    IF name = Bob THEN P(1) ELSE IF name = Amy THEN P(2) ELSE NoPersona

\* re.findall("@([\S]{3,80})", text)
MentionSpans(s) == FindMarked(s, "@", MinMentionLen, MaxMentionLen, 1)

\* a variant that keeps the mentions without an identity
FindMentions_KeepUnresolved(s) ==
    [n \in 1..Len(MentionSpans(s)) |->
        <<Groups(s, MentionSpans(s))[n],
          IdentityByUsername(Groups(s, MentionSpans(s))[n])>>]

\* find_mentions(text): the (mention_text, identity) pairs that resolve
FindMentions(s) ==
    SelectSeq([n \in 1..Len(MentionSpans(s)) |->
                 <<Groups(s, MentionSpans(s))[n],
                   IdentityByUsername(Groups(s, MentionSpans(s))[n])>>],
              LAMBDA pair : pair[2] # NoPersona)

(***************************************************************************)
(* find_links                                                              *)
(***************************************************************************)
\* the maximal runs of non-space characters, as <<start, end>> spans
RECURSIVE TokenSpans(_, _)
TokenSpans(s, i) ==
    IF i > Len(s) THEN <<>>
    ELSE IF IsSpace(s[i]) THEN TokenSpans(s, i + 1)
    ELSE <<<<i, RunEnd(s, i, Len(s))>>>>
            \o TokenSpans(s, RunEnd(s, i, Len(s)) + 1)

\* "((?:https?://)?\S+\.\w{2,3}\S*)" matches a whole run of non-space
\* characters that has, after its first character, a dot followed by two
\* word characters
LooksLikeUrl(tok) ==
    \E j \in 2..(Len(tok) - 2) :
        tok[j] = "." /\ IsWord(tok[j + 1]) /\ IsWord(tok[j + 2])

\* line 37: re.findall(expr, text)
Candidates(s) ==
    SelectSeq([n \in 1..Len(TokenSpans(s, 1)) |->
                 SubSeq(s, TokenSpans(s, 1)[n][1], TokenSpans(s, 1)[n][2])],
              LooksLikeUrl)

Http == <<"h", "t", "t", "p", ":", "/", "/">>

\* lines 41-44
Schemed(c) == IF SubSeq(c, 1, 4) = SubSeq(Http, 1, 4) THEN c ELSE Http \o c

\* outcomes of requests.head: a response of status 200 that is an image or
\* a page, a response of status 404, or a RequestException
Outcomes == {"image", "page", "notfound", "error"}

\* a variant without the try / except around the probe
RECURSIVE LinkLoop_NoCatch(_, _, _, _)
LinkLoop_NoCatch(cands, n, web, st) ==
    IF n > Len(cands) \/ st.raised # "none" THEN st
    ELSE LET c  == cands[n]
             cs == Schemed(c)
             st1 == [st EXCEPT !.probes = Append(@, cs)]
         IN  IF web[cs] = "error"
             THEN [st1 EXCEPT !.raised = "RequestException"]
             ELSE IF web[cs] \in {"image", "page"}
             THEN LET st2 == [st1 EXCEPT !.links = Append(@,
                                 [url |-> cs, ctype |-> web[cs]])]
                  IN  IF index(st.text, c) + Len(c) = Len(rstrip(st.text))
                      THEN LinkLoop_NoCatch(cands, n + 1, web,
                              [st2 EXCEPT !.text = remove(@, c)])
                      ELSE LinkLoop_NoCatch(cands, n + 1, web, st2)
             ELSE LinkLoop_NoCatch(cands, n + 1, web, st1)

\* lines 40-61: the loop over the reversed candidates.  st holds the running
\* text, the accepted responses, the rejects and the URLs probed so far.
RECURSIVE LinkLoop(_, _, _, _)
LinkLoop(cands, n, web, st) ==
    IF n > Len(cands) \/ st.raised # "none" THEN st
    ELSE LET c  == cands[n]
             cs == Schemed(c)
         IN  IF cs \in st.rejects THEN LinkLoop(cands, n + 1, web, st)
             ELSE LET st1 == [st EXCEPT !.probes = Append(@, cs)]
                  IN  IF web[cs] = "error"
                      THEN LinkLoop(cands, n + 1, web,
                              [st1 EXCEPT !.rejects = @ \cup {cs}])
                      ELSE IF web[cs] \in {"image", "page"}
                      THEN LET st2 == [st1 EXCEPT !.links = Append(@,
                                          [url |-> cs, ctype |-> web[cs]])]
                           IN  IF index(st.text, c) = -1
                               THEN [st2 EXCEPT !.raised = "ValueError"]
                               ELSE IF index(st.text, c) + Len(c)
                                          = Len(rstrip(st.text))
                               THEN LinkLoop(cands, n + 1, web,
                                      [st2 EXCEPT !.text = remove(@, c)])
                               ELSE LinkLoop(cands, n + 1, web, st2)
                      ELSE LinkLoop(cands, n + 1, web, st1)

\* find_links(text)
FindLinks(s, web) ==
    LinkLoop(reversed(Candidates(s)), 1, web,
             [text |-> s, links |-> <<>>, rejects |-> {}, probes |-> <<>>,
              raised |-> "none"])

(***************************************************************************)
(* process_attachments                                                     *)
(***************************************************************************)
\* the title the page extractor reports for every page
PageTitle == <<"T">>

\* link.url[(link.url.rfind('/') + 1):]
AfterLastSlash(url) ==
    LET I == {i \in 1..Len(url) : url[i] = "/"}
    IN  IF I = {} THEN url
        ELSE SubSeq(url, (CHOOSE i \in I : \A j \in I : j <= i) + 1, Len(url))

\* the units of work that extract attachments
Sessions == {1, 2}

\* a variant that never looks the URL up
GetOrCreate_AlwaysNew(st, k, url, n) == [kind |-> k, key |-> url, oid |-> 0 - n]

\* LinkPercept.get_or_create(url) / LinkedPicturePercept.get_or_create(url),
\* called for the n-th link of a call: the stored row of that kind and URL
\* when there is one (oid: its id), else a new object that is not yet part
\* of any session (oid: -n), which line 159 finds transient
GetOrCreate(st, k, url, n) ==
    LET ids == {r.id : r \in {x \in st : x.kind = k /\ x.url = url}}
    IN  [kind |-> k, key |-> url,
         oid |-> IF ids = {} THEN 0 - n ELSE Min(ids)]

\* a variant that ignores the content type: every link becomes a LinkPercept
RECURSIVE LinkPercepts_NoPictures(_, _, _)
LinkPercepts_NoPictures(links, n, acc) ==
    IF n > Len(links) THEN acc
    ELSE LinkPercepts_NoPictures(links, n + 1,
            [acc EXCEPT !.message = IF Len(@) = 0 THEN PageTitle ELSE @,
                        !.percepts = @ \cup {GetOrCreate(acc.store, "link",
                                                         links[n].url, n)}])

\* lines 147-174: the loop over the accepted links; acc holds the message,
\* the percepts and the store that get_or_create reads
RECURSIVE LinkPercepts(_, _, _)
LinkPercepts(links, n, acc) ==
    IF n > Len(links) THEN acc
    ELSE LET url  == links[n].url
             pic  == links[n].ctype = "image"
             k    == IF pic THEN "linkedpicture" ELSE "link"
             msg  == IF Len(acc.message) = 0
                     THEN (IF pic THEN AfterLastSlash(url) ELSE PageTitle)
                     ELSE acc.message
         IN  LinkPercepts(links, n + 1,
                [acc EXCEPT !.message = msg,
                            !.percepts = @ \cup {GetOrCreate(acc.store, k,
                                                             url, n)}])

\* process_attachments(text).  oid tells the objects of one call apart: a
\* TagPercept and a Mention is always a new object (oid: its position), a
\* link percept is a stored row or a new object (see GetOrCreate)
ProcessAttachments(s, web, st) ==
    LET ft == FindTags(s)
        ms == FindMentions(ft.text)
        fl == FindLinks(ft.text, web)
        tp == {[kind |-> "tag", key |-> ft.tags[n], oid |-> n] :
                  n \in DOMAIN ft.tags}
        mp == {[kind |-> "mention", key |-> ms[n], oid |-> n] :
                  n \in DOMAIN ms}
        r  == LinkPercepts(fl.links, 1,
                 [message |-> fl.text, percepts |-> tp \cup mp, store |-> st])
    IN  IF ft.raised # "none" \/ fl.raised # "none"
        THEN [message |-> s, percepts |-> {},
              probes |-> fl.probes, raised |-> "ValueError"]
        ELSE [message |-> r.message, percepts |-> r.percepts,
              probes |-> fl.probes, raised |-> "none"]

(***************************************************************************)
(* Handlers, each one atomic: mutation, invalidation and commit            *)
(***************************************************************************)
\* no promotion_check of the session is past its tests
NoCheck == <<>>

\* the record of an operation: its receiver or subject, its argument, what it
\* returned or raised, and further arguments where a property needs them
Op(op, who, what, rv, raised) ==
    [op |-> op, p |-> who, m |-> what, rv |-> rv, raised |-> raised,
     arg |-> <<>>]

NoOp == Op("none", NoPersona, 0, 0, "none")

\* a variant that leaves the memoized frontpage_sources alone
toggle_following_NoReset(p, ident) ==
    /\ blogs_followed' = FollowFlip(blogs_followed, p, ident)
    /\ last' = Op("toggle_following", p, ident,
                  ident \in blogs_followed'[p], "none")
    /\ UNCHANGED <<mmas, cache, tm>>
    /\ UNCHANGED promoVars /\ UNCHANGED textVars

\* Persona.toggle_following(ident)
toggle_following(p, ident) ==
    /\ blogs_followed' = FollowFlip(blogs_followed, p, ident)
    /\ cache' = delete_memoized(cache, <<"frontpage_sources", p>>)
    /\ last' = Op("toggle_following", p, ident,
                  ident \in blogs_followed'[p], "none")
    /\ UNCHANGED <<mmas, tm>>
    /\ UNCHANGED promoVars /\ UNCHANGED textVars

\* the table's UniqueConstraint('movement_id', 'persona_id'); rows without a
\* persona do not collide
UniquePairs(rows) ==
    \A i, j \in DOMAIN rows :
        (/\ i # j
         /\ rows[i].persona # NoPersona
         /\ rows[i].movement = rows[j].movement) =>
            rows[i].persona # rows[j].persona

\* Persona.toggle_movement_membership(movement, role, invitation_code),
\* called while cu is the session's active persona, and the caller's commit.
\* A commit that breaks the unique constraint fails and rolls the session
\* back; the cache is outside the transaction.
toggle_movement_membership(cu, p, m, role, code) ==
    LET r  == TMMutate(cu, p, m, role, code, mmas, blogs_followed, cache)
        ok == UniquePairs(r.mmas)
    IN  /\ Len(r.mmas) <= MaxMma
        /\ mmas' = IF ok THEN r.mmas ELSE mmas
        /\ blogs_followed' = IF ok THEN r.follows ELSE blogs_followed
        /\ cache' = IF r.raised = "none" THEN TMInvalidate(r.cache, p, m)
                    ELSE r.cache
        /\ last' = [Op("toggle_movement_membership", p, m,
                       IF ok THEN r.rv ELSE 0,
                       IF ok THEN r.raised ELSE "IntegrityError")
                      EXCEPT !.arg = <<cu, code>>]
        /\ UNCHANGED tm
        /\ UNCHANGED promoVars /\ UNCHANGED textVars

\* the movements whose membership p has toggled, without an error, in the
\* operation right before this one
JustToggled(p) ==
    IF last.op = "toggle_movement_membership" /\ last.p = p
       /\ last.raised = "none"
    THEN {last.m} ELSE {}

\* Persona.movements() through the memoizer, read while cu is the session's
\* active persona
movements(cu, p) ==
    LET k == <<"movements", p>>
        v == QueryMovements(mmas, cu)
    IN  /\ cache' = MemoStore(cache, k, v)
        /\ last' = Op("movements", p, JustToggled(p), Memo(cache, k, v), "none")
        /\ UNCHANGED <<mmas, blogs_followed, tm>>
        /\ UNCHANGED promoVars /\ UNCHANGED textVars

\* Movement.member_count() through the memoizer
member_count(m) ==
    LET k == <<"member_count", m>>
        v == CountMembers(mmas, m)
    IN  /\ cache' = MemoStore(cache, k, v)
        /\ last' = Op("member_count", NoPersona, m, Memo(cache, k, v), "none")
        /\ UNCHANGED <<mmas, blogs_followed, tm>>
        /\ UNCHANGED promoVars /\ UNCHANGED textVars

\* Persona.frontpage_sources() through the memoizer
frontpage_sources(p) ==
    LET k == <<"frontpage_sources", p>>
        v == QueryFrontpageSources(mmas, blogs_followed, p)
    IN  /\ cache' = MemoStore(cache, k, v)
        /\ last' = Op("frontpage_sources", p, 0, Memo(cache, k, v), "none")
        /\ UNCHANGED <<mmas, blogs_followed, tm>>
        /\ UNCHANGED promoVars /\ UNCHANGED textVars

\* Persona.repost_mindsets() through the memoizer; on a miss its body calls
\* the memoized self.movements()
repost_mindsets(cu, p) ==
    LET k  == <<"repost_mindsets", p>>
        km == <<"movements", p>>
        ms == Memo(cache, km, QueryMovements(mmas, cu))
        v  == {mindspace_id(p), blog_id(p)} \cup {mindspace_id(x) : x \in ms}
    IN  /\ cache' = IF cache[k] # {} THEN cache
                    ELSE MemoStore(MemoStore(cache, km, ms), k, v)
        /\ last' = Op("repost_mindsets", p, 0, Memo(cache, k, v), "none")
        /\ UNCHANGED <<mmas, blogs_followed, tm>>
        /\ UNCHANGED promoVars /\ UNCHANGED textVars

\* a memoized entry reaches its timeout
Expire(k) ==
    /\ cache[k] # {}
    /\ cache' = delete_memoized(cache, k)
    /\ last' = NoOp
    /\ UNCHANGED <<mmas, blogs_followed, tm>>
    /\ UNCHANGED promoVars /\ UNCHANGED textVars

\* Movement.required_votes(): reads member_count through the memoizer
required_votes(m) ==
    LET k == <<"member_count", m>>
        c == Memo(cache, k, CountMembers(mmas, m))
    IN  /\ cache' = MemoStore(cache, k, c)
        /\ last' = Op("required_votes", m, c, RequiredVotes(c), "none")
        /\ UNCHANGED <<mmas, blogs_followed, tm>>
        /\ UNCHANGED promoVars /\ UNCHANGED textVars

\* a variant that keeps the count held in _upvotes
toggle_upvote_KeepCount(a, t) ==
    LET i == FindUpvote(upvotes[t], a)
    IN  /\ upvotes' = [upvotes EXCEPT ![t] =
                          IF i = 0 THEN Append(@, Upvote(a))
                          ELSE [@ EXCEPT ![i].active = ~@]]
        /\ toggles' = [toggles EXCEPT ![<<a, t>>] = 1 - @]
        /\ last' = Op("toggle_upvote", NoPersona, t, 0, "none")
        /\ UNCHANGED <<counted, blogged, clones, sent, checks>>
        /\ UNCHANGED idVars /\ UNCHANGED textVars

\* Thought.toggle_upvote(author): the author's upvote child is looked up; it
\* is created when there is none, else its state is flipped between active
\* and inactive.  The count held in _upvotes is dropped.
toggle_upvote(a, t) ==
    LET i == FindUpvote(upvotes[t], a)
    IN  /\ upvotes' = [upvotes EXCEPT ![t] =
                          IF i = 0 THEN Append(@, Upvote(a))
                          ELSE [@ EXCEPT ![i].active = ~@]]
        /\ counted' = [counted EXCEPT ![t] = NoCount]
        /\ toggles' = [toggles EXCEPT ![<<a, t>>] = 1 - @]
        /\ last' = Op("toggle_upvote", NoPersona, t, 0, "none")
        /\ UNCHANGED <<blogged, clones, sent, checks>>
        /\ UNCHANGED idVars /\ UNCHANGED textVars

\* Thought.upvote_count() on the thought object the toggles were made on:
\* the count held in _upvotes when there is one, else the recomputed count,
\* which is then held
read_upvote_count(t) ==
    LET rv == IF counted[t] # NoCount THEN counted[t]
              ELSE upvote_count(upvotes, t)
    IN  /\ counted' = [counted EXCEPT ![t] = rv]
        /\ last' = Op("upvote_count", NoPersona, t, rv, "none")
        /\ UNCHANGED <<upvotes, toggles, blogged, clones, sent, checks>>
        /\ UNCHANGED idVars /\ UNCHANGED textVars

\* Movement.promotion_check(thought); rv is TRUE when the clone is returned
\* and FALSE for None.  Each clone carries one upvote of the movement.
promotion_check(m, t) ==
    LET k    == <<"member_count", m>>
        cand == PromotionCandidate(blogged[t], mindset(t))
        c    == Memo(cache, k, CountMembers(mmas, m))
        fire == cand /\ EnoughVotes(upvote_count(upvotes, t), RequiredVotes(c))
    IN  /\ cache' = IF cand THEN MemoStore(cache, k, c) ELSE cache
        /\ clones' = IF fire THEN [clones EXCEPT ![<<t, m>>] = @ + 1]
                     ELSE clones
        /\ blogged' = IF fire THEN [blogged EXCEPT ![t] = TRUE] ELSE blogged
        /\ sent' = IF fire THEN sent + 1 ELSE sent
        /\ last' = Op("promotion_check", m, t, fire, "none")
        /\ UNCHANGED <<upvotes, counted, toggles, checks>>
        /\ UNCHANGED <<mmas, blogs_followed, tm>> /\ UNCHANGED textVars

\* promotion_check in a request of its own, up to the tests of lines
\* 739-741: it reads _blogged, the mindset and the two counts, and goes on
\* to promote when they allow it
PromotionTest(s, m, t) ==
    LET k    == <<"member_count", m>>
        cand == PromotionCandidate(blogged[t], mindset(t))
        c    == Memo(cache, k, CountMembers(mmas, m))
        fire == cand /\ EnoughVotes(upvote_count(upvotes, t), RequiredVotes(c))
    IN  /\ checks[s] = NoCheck
        /\ cache' = IF cand THEN MemoStore(cache, k, c) ELSE cache
        /\ checks' = IF fire THEN [checks EXCEPT ![s] = <<m, t>>] ELSE checks
        /\ last' = IF fire THEN last
                   ELSE Op("promotion_check", m, t, FALSE, "none")
        /\ UNCHANGED <<upvotes, counted, toggles, blogged, clones, sent>>
        /\ UNCHANGED <<mmas, blogs_followed, tm>> /\ UNCHANGED textVars

\* lines 742-751 of the same request: the clone with the movement's upvote,
\* the flag, the chat message
Promote(s) ==
    /\ checks[s] # NoCheck
    /\ clones' = [clones EXCEPT ![<<checks[s][2], checks[s][1]>>] = @ + 1]
    /\ blogged' = [blogged EXCEPT ![checks[s][2]] = TRUE]
    /\ sent' = sent + 1
    /\ checks' = [checks EXCEPT ![s] = NoCheck]
    /\ last' = Op("promotion_check", checks[s][1], checks[s][2], TRUE, "none")
    /\ UNCHANGED <<upvotes, counted, toggles>>
    /\ UNCHANGED idVars /\ UNCHANGED textVars

\* a variant whose ratio is not capped at 1
voting_done_Uncapped(m, t) ==
    LET k   == <<"member_count", m>>
        c   == Memo(cache, k, CountMembers(mmas, m))
        rv  == IF blogged[t] \/ RequiredVotes(c) <= 0 THEN <<1, 1>>
               ELSE <<upvote_count(upvotes, t), RequiredVotes(c)>>
    IN  /\ cache' = IF blogged[t] THEN cache ELSE MemoStore(cache, k, c)
        /\ last' = Op("voting_done", m, t, rv, "none")
        /\ UNCHANGED <<mmas, blogs_followed, tm>>
        /\ UNCHANGED promoVars /\ UNCHANGED textVars

\* Movement.voting_done(thought)
voting_done(m, t) ==
    LET k   == <<"member_count", m>>
        c   == Memo(cache, k, CountMembers(mmas, m))
        c2  == Memo(MemoStore(cache, k, c), k, CountMembers(mmas, m))
        rv  == VotingDoneValue(blogged[t], upvote_count(upvotes, t),
                               RequiredVotes(c), RequiredVotes(c2))
    IN  /\ cache' = IF blogged[t] THEN cache ELSE MemoStore(cache, k, c)
        /\ last' = Op("voting_done", m, t, rv,
                      IF rv[2] = 0 THEN "ZeroDivisionError" ELSE "none")
        /\ UNCHANGED <<mmas, blogs_followed, tm>>
        /\ UNCHANGED promoVars /\ UNCHANGED textVars

\* the percepts of a call that are new link percepts
NewLinkPercepts(ps) ==
    {x \in ps : x.kind \in {"link", "linkedpicture"} /\ x.oid < 0}

\* process_attachments(text), called in session s
process_attachments(s) ==
    LET r == ProcessAttachments(text, http, store)
    IN  /\ pending' = [pending EXCEPT ![s] = NewLinkPercepts(r.percepts)]
        /\ last' = Op("process_attachments", NoPersona, s, r, r.raised)
        /\ UNCHANGED <<text, http, store>>
        /\ UNCHANGED idVars /\ UNCHANGED promoVars

\* how the percept table treats a second row of one kind and URL: it takes
\* it, or a unique constraint refuses it
Schemas == {"plain", "unique"}

\* the caller of process_attachments adds the percepts to its session and
\* commits: every new link percept of session s becomes a row
commit(s, schema) ==
    LET new      == pending[s]
        conflict == \E x \in new :
                       \/ \E r \in store : r.kind = x.kind /\ r.url = x.key
                       \/ \E y \in new : y # x /\ y.kind = x.kind
                                                /\ y.key = x.key
        rows     == {[id   |-> Cardinality(store)
                                 + Cardinality({y \in new : y.oid >= x.oid}),
                      kind |-> x.kind, url |-> x.key] : x \in new}
    IN  /\ new # {}
        /\ IF schema = "unique" /\ conflict
           THEN /\ store' = store
                /\ last' = Op("commit", NoPersona, s, 0, "IntegrityError")
           ELSE /\ store' = store \cup rows
                /\ last' = Op("commit", NoPersona, s, 0, "none")
        /\ pending' = [pending EXCEPT ![s] = {}]
        /\ UNCHANGED <<text, http>>
        /\ UNCHANGED idVars /\ UNCHANGED promoVars

\* a user enters the next message
enter(t) ==
    /\ text # t
    /\ text' = t
    /\ last' = NoOp
    /\ UNCHANGED <<http, store, pending>>
    /\ UNCHANGED idVars /\ UNCHANGED promoVars

\* find_links(text)
find_links ==
    LET r == FindLinks(text, http)
    IN  /\ last' = Op("find_links", NoPersona, 0, r, r.raised)
        /\ UNCHANGED idVars /\ UNCHANGED promoVars /\ UNCHANGED textVars

\* find_mentions(text)
find_mentions ==
    /\ last' = Op("find_mentions", NoPersona, 0, FindMentions(text), "none")
    /\ UNCHANGED idVars /\ UNCHANGED promoVars /\ UNCHANGED textVars

\* find_tags(text)
find_tags ==
    LET r == FindTags(text)
    IN  /\ last.op = "none"
        /\ last' = Op("find_tags", NoPersona, 0, r, r.raised)
        /\ UNCHANGED idVars /\ UNCHANGED promoVars /\ UNCHANGED textVars

(***************************************************************************)
(* Initial states                                                          *)
(***************************************************************************)
\* the rows a deployment starts from: each founder is the admin member of
\* its movement, and the private movement has one open invitation, addressed
\* to nobody or to the first persona
InitialRows ==
    {<<MovementMemberAssociation(P(1), M(1), "admin"),
       MovementMemberAssociation(P(2), M(2), "admin"),
       Invitation(q, M(2), "k1")>> : q \in {NoPersona, P(1)}}

IdleTm == [pc |-> "idle", p |-> NoPersona, m |-> M(1), mmas |-> <<>>,
           follows |-> [p \in Personas |-> {}]]

InitId ==
    /\ mmas \in InitialRows
    /\ blogs_followed = [p \in Personas |->
          {m \in Movements : active_member(mmas, m, p)}]
    /\ cache = EmptyCache
    /\ tm = IdleTm

InitNoPromo ==
    /\ upvotes = [t \in Thoughts |-> <<>>]
    /\ counted = [t \in Thoughts |-> NoCount]
    /\ toggles = [x \in Personas \X Thoughts |-> 0]
    /\ blogged = [t \in Thoughts |-> FALSE]
    /\ clones = [x \in Thoughts \X Movements |-> 0]
    /\ sent = 0
    /\ checks = [s \in Sessions |-> NoCheck]

InitNoText ==
    /\ text = <<>>
    /\ http = [u \in {} |-> "error"]
    /\ store = {}
    /\ pending = [s \in Sessions |-> {}]

Init == InitId /\ InitNoPromo /\ InitNoText /\ last = NoOp

Next ==
    \/ \E cu \in Personas, p \in Personas, m \in Movements,
          role \in Roles, code \in Codes :
          toggle_movement_membership(cu, p, m, role, code)
    \/ \E cu \in Personas, p \in Personas : movements(cu, p)
    \/ \E k \in CacheKeys : Expire(k)

Spec == Init /\ [][Next]_vars

(***************************************************************************)
(* SpecRace: one toggle_movement_membership call runs in its own session,  *)
(* step by step, while other sessions read member_count through the        *)
(* memoizer.  The toggling session's changes are pending in tm until its   *)
(* caller commits; the cache is shared and changes at once.                *)
(***************************************************************************)
\* lines 455-494 run in the toggling session
TMStart(cu, p, m, role, code) ==
    LET r == TMMutate(cu, p, m, role, code, mmas, blogs_followed, cache)
    IN  /\ tm.pc = "idle"
        /\ r.raised = "none"
        /\ Len(r.mmas) <= MaxMma
        /\ tm' = [pc |-> "mutated", p |-> p, m |-> m,
                  mmas |-> r.mmas, follows |-> r.follows]
        /\ cache' = r.cache
        /\ last' = Op("toggle_started", p, m, r.rv, "none")
        /\ UNCHANGED <<mmas, blogs_followed>>
        /\ UNCHANGED promoVars /\ UNCHANGED textVars

\* lines 496-500 run
TMReset ==
    /\ tm.pc = "mutated"
    /\ cache' = TMInvalidate(cache, tm.p, tm.m)
    /\ tm' = [tm EXCEPT !.pc = "returned"]
    /\ last' = Op("toggle_returned", tm.p, tm.m, 0, "none")
    /\ UNCHANGED <<mmas, blogs_followed>>
    /\ UNCHANGED promoVars /\ UNCHANGED textVars

\* the caller commits the session
TMCommit ==
    /\ tm.pc = "returned"
    /\ mmas' = IF UniquePairs(tm.mmas) THEN tm.mmas ELSE mmas
    /\ blogs_followed' = IF UniquePairs(tm.mmas) THEN tm.follows
                         ELSE blogs_followed
    /\ tm' = IdleTm
    /\ last' = Op("toggle_committed", tm.p, tm.m, 0,
                  IF UniquePairs(tm.mmas) THEN "none" ELSE "IntegrityError")
    /\ UNCHANGED cache
    /\ UNCHANGED promoVars /\ UNCHANGED textVars

NextRace ==
    \/ \E cu \in Personas, p \in Personas, m \in Movements,
          role \in Roles, code \in Codes : TMStart(cu, p, m, role, code)
    \/ TMReset
    \/ TMCommit
    \/ \E m \in Movements : member_count(m)

SpecRace == Init /\ [][NextRace]_vars

(***************************************************************************)
(* SpecPromo: upvotes, promotion checks and progress reads on the three    *)
(* thoughts, while personas join and leave on their own behalf.            *)
(***************************************************************************)
InitPromo ==
    /\ mmas = <<MovementMemberAssociation(P(1), M(1), "admin"),
                MovementMemberAssociation(P(2), M(2), "admin"),
                Invitation(NoPersona, M(2), "k1")>>
    /\ blogs_followed = [p \in Personas |->
          {m \in Movements : active_member(mmas, m, p)}]
    /\ cache = EmptyCache
    /\ tm = IdleTm
    /\ InitNoPromo /\ InitNoText /\ last = NoOp

NextPromo ==
    \/ \E a \in Personas : toggle_upvote(a, "t1")
    \/ \E t \in Thoughts \ {"t1"} : toggle_upvote(P(1), t)
    \/ \E m \in Movements, t \in Thoughts : promotion_check(m, t)
    \/ \E p \in Personas, m \in Movements :
          toggle_movement_membership(p, p, m, "member", None)

SpecPromo == InitPromo /\ [][NextPromo]_vars

(***************************************************************************)
(* SpecPromoRace: promotion checks of the first movement's mindspace       *)
(* thought in two requests at once, while personas vote, join and leave.   *)
(***************************************************************************)
NextPromoRace ==
    \/ \E a \in Personas : toggle_upvote(a, "t1")
    \/ \E p \in Personas : toggle_movement_membership(p, p, M(1), "member", None)
    \/ \E s \in Sessions : PromotionTest(s, M(1), "t1")
    \/ \E s \in Sessions : Promote(s)

SpecPromoRace == InitPromo /\ [][NextPromoRace]_vars

(***************************************************************************)
(* SpecUpvotes: upvote toggles by both personas on two thoughts, with      *)
(* reads of the count on the same thought objects.                         *)
(***************************************************************************)
NextUpvotes ==
    \/ \E a \in Personas, t \in {"t1", "t2"} : toggle_upvote(a, t)
    \/ \E t \in {"t1", "t2"} : read_upvote_count(t)

SpecUpvotes == InitPromo /\ [][NextUpvotes]_vars

(***************************************************************************)
(* SpecVotes: one movement with c active members and a thought in its      *)
(* mindspace holding u upvotes.                                            *)
(***************************************************************************)
MaxUp == 11

CountSamples == {0, 1, 2, 3, 4, 5, 10, 50, 100, 500}

InitVotes ==
    /\ \E c \in CountSamples :
          mmas = [i \in 1..c |-> MovementMemberAssociation(
                      P(i), M(1), IF i = 1 THEN "admin" ELSE "member")]
    /\ blogs_followed = [p \in Personas |->
          {m \in Movements : active_member(mmas, m, p)}]
    /\ cache = EmptyCache
    /\ tm = IdleTm
    /\ \E u \in 0..MaxUp :
          /\ upvotes = [t \in Thoughts |->
                IF t = "t1" THEN [i \in 1..u |-> Upvote(P(i))] ELSE <<>>]
          /\ toggles = [x \in Personas \X Thoughts |->
                IF x[2] = "t1" /\ x[1][2] <= u THEN 1 ELSE 0]
    /\ counted = [t \in Thoughts |-> NoCount]
    /\ blogged = [t \in Thoughts |-> FALSE]
    /\ clones = [x \in Thoughts \X Movements |-> 0]
    /\ sent = 0
    /\ checks = [s \in Sessions |-> NoCheck]
    /\ InitNoText /\ last = NoOp

NextVotes ==
    \/ required_votes(M(1))
    \/ promotion_check(M(1), "t1")
    \/ voting_done(M(1), "t1")

SpecVotes == InitVotes /\ [][NextVotes]_vars

(***************************************************************************)
(* SpecTags: find_tags on every text of at most MaxLen characters.         *)
(***************************************************************************)
MaxLen == 5

Alphabet == {"#", "a", "b", " "}

TextsUpTo(n) == UNION {[1..k -> Alphabet] : k \in 0..n}

InitTags ==
    /\ InitId /\ InitNoPromo
    /\ mmas = <<MovementMemberAssociation(P(1), M(1), "admin"),
                MovementMemberAssociation(P(2), M(2), "admin"),
                Invitation(NoPersona, M(2), "k1")>>
    /\ text \in TextsUpTo(MaxLen)
    /\ http = [u \in {} |-> "error"]
    /\ store = {}
    /\ pending = [s \in Sessions |-> {}]
    /\ last = NoOp

NextTags == find_tags

SpecTags == InitTags /\ [][NextTags]_vars

(***************************************************************************)
(* SpecAttach: process_attachments and find_links on the texts of at most  *)
(* MaxTokens tokens of a small vocabulary, joined by single spaces, for    *)
(* every outcome of the link probes.                                       *)
(***************************************************************************)
MaxTokens == 3

PicUrl   == <<"h", "t", "t", "p", ":", "/", "/", "e", "x", "a", "m", "p", "l", "e", ".", "c", "o", "m", "/", "p", "i", "c", ".", "j", "p", "g">>
ShortUrl == <<"x", ".", "c", "o">>

Vocabulary == {<<"O", "k">>, <<"#", "t", "e", "s", "t">>, <<"@">> \o Bob, PicUrl, ShortUrl}

Urls == {Schemed(PicUrl), Schemed(ShortUrl)}

RECURSIVE Join(_)
Join(toks) ==
    IF Len(toks) = 1 THEN toks[1]
    ELSE toks[1] \o <<" ">> \o Join(Tail(toks))

\* "Ok #test @bob http://example.com/pic.jpg"
ExampleText == Join(<<<<"O", "k">>, <<"#", "t", "e", "s", "t">>, <<"@">> \o Bob, PicUrl>>)

AttachTexts ==
    {ExampleText} \cup
    {Join(toks) : toks \in UNION {[1..k -> Vocabulary] : k \in 1..MaxTokens}}

InitAttach ==
    /\ InitId /\ InitNoPromo
    /\ mmas = <<MovementMemberAssociation(P(1), M(1), "admin"),
                MovementMemberAssociation(P(2), M(2), "admin"),
                Invitation(NoPersona, M(2), "k1")>>
    /\ text \in AttachTexts
    /\ http \in [Urls -> Outcomes]
    /\ store = {}
    /\ pending = [s \in Sessions |-> {}]
    /\ last = NoOp

NextAttach ==
    \/ process_attachments(1)
    \/ last.op = "none" /\ find_links

SpecAttach == InitAttach /\ [][NextAttach]_vars

(***************************************************************************)
(* SpecViews: follow and membership toggles, each made by a persona on its *)
(* own behalf, with reads of the memoized frontpage_sources and            *)
(* member_count.                                                           *)
(***************************************************************************)
NextViews ==
    \/ \E p \in Personas, ident \in Movements : toggle_following(p, ident)
    \/ toggle_following(P(1), P(2))
    \/ \E p \in Personas : frontpage_sources(p)
    \/ \E m \in Movements : member_count(m)
    \/ \E p \in Personas, m \in Movements, code \in {None, "k1"} :
          toggle_movement_membership(p, p, m, "member", code)

SpecViews == InitPromo /\ [][NextViews]_vars

(***************************************************************************)
(* SpecMentions: find_mentions and process_attachments on the texts of at  *)
(* most MaxTokens tokens that are mentions, near-mentions or a link.       *)
(***************************************************************************)
\* "@bob", "@amy", "@bo", "@bobo", "x@amy", "@@bob" and "x.co"
MentionVocabulary ==
    {<<"@">> \o Bob, <<"@">> \o Amy, <<"@", "b", "o">>,
     <<"@">> \o Bob \o <<"o">>, <<"x", "@">> \o Amy, <<"@", "@">> \o Bob,
     ShortUrl}

MentionTexts ==
    {Join(toks) :
        toks \in UNION {[1..k -> MentionVocabulary] : k \in 1..MaxTokens}}

InitMentions ==
    /\ InitId /\ InitNoPromo
    /\ mmas = <<MovementMemberAssociation(P(1), M(1), "admin"),
                MovementMemberAssociation(P(2), M(2), "admin"),
                Invitation(NoPersona, M(2), "k1")>>
    /\ text \in MentionTexts
    /\ http \in {[u \in Urls |-> o] : o \in {"page", "error"}}
    /\ store = {}
    /\ pending = [s \in Sessions |-> {}]
    /\ last = NoOp

NextMentions ==
    \/ find_mentions
    \/ process_attachments(1)

SpecMentions == InitMentions /\ [][NextMentions]_vars

(***************************************************************************)
(* SpecSubmit: submissions that name the same page, one after the other:   *)
(* no call of process_attachments starts while new percepts of an earlier  *)
(* call wait for their commit.                                             *)
(***************************************************************************)
\* "x.co", "http://x.co", "Ok x.co" and the picture URL
SubmitTexts ==
    {ShortUrl, Http \o ShortUrl, Join(<<<<"O", "k">>, ShortUrl>>), PicUrl}

InitSubmit ==
    /\ InitId /\ InitNoPromo
    /\ mmas = <<MovementMemberAssociation(P(1), M(1), "admin"),
                MovementMemberAssociation(P(2), M(2), "admin"),
                Invitation(NoPersona, M(2), "k1")>>
    /\ text \in SubmitTexts
    /\ http \in [Urls -> Outcomes]
    /\ store = {}
    /\ pending = [s \in Sessions |-> {}]
    /\ last = NoOp

NextSubmit ==
    \/ \E t \in SubmitTexts : enter(t)
    \/ \E s \in Sessions :
          (\A o \in Sessions : pending[o] = {}) /\ process_attachments(s)
    \/ \E s \in Sessions, schema \in Schemas : commit(s, schema)

SpecSubmit == InitSubmit /\ [][NextSubmit]_vars

(***************************************************************************)
(* SpecSessions: the same submissions made by two sessions at once; a      *)
(* session commits the new percepts of a call before its next call.        *)
(***************************************************************************)
NextSessions ==
    \/ \E t \in SubmitTexts : enter(t)
    \/ \E s \in Sessions : pending[s] = {} /\ process_attachments(s)
    \/ \E s \in Sessions, schema \in Schemas : commit(s, schema)

SpecSessions == InitSubmit /\ [][NextSessions]_vars

(***************************************************************************)
(* Properties                                                              *)
(***************************************************************************)
\* C1: a read of P.movements() that directly follows a completed toggle by P
\* on movement M contains M if and only if P is an active member of M,
\* whoever the session's active persona is.
C1_MovementsReflectToggle ==
    last.op = "movements" =>
        \A m \in last.m : (m \in last.rv) <=> active_member(mmas, m, last.p)

\* C2: a member_count read made while no toggle is in flight (so after the
\* commit of every toggle so far) returns the number of active members, under
\* every interleaving of the toggle's steps with the reads.
C2_NoStaleCountAfterCommit ==
    (last.op = "member_count" /\ tm.pc = "idle") =>
        last.rv = CountMembers(mmas, last.m)

\* the thought the last promotion_check looked at was unpromoted before it
CheckedUnpromoted ==
    last.op = "promotion_check" /\ (last.rv \/ ~blogged[last.m])

\* C3 as stated: with 100 active members required_votes is 3; a check of an
\* unpromoted mindspace thought with 2 upvotes promotes nothing, and with 3
\* upvotes it creates exactly one clone and sets the promoted flag.
C3_ThreeVotesAtHundred ==
    CountMembers(mmas, M(1)) = 100 =>
        /\ (last.op = "required_votes" /\ last.p = M(1)) => last.rv = 3
        /\ (CheckedUnpromoted /\ last.p = M(1) /\ last.m = "t1") =>
              /\ upvote_count(upvotes, "t1") = 2 =>
                    (~last.rv /\ clones[<<"t1", M(1)>>] = 0 /\ ~blogged["t1"])
              /\ upvote_count(upvotes, "t1") = 3 =>
                    (last.rv /\ clones[<<"t1", M(1)>>] = 1 /\ blogged["t1"])

\* C3 amended: with 100 active members required_votes is 10; a check of an
\* unpromoted mindspace thought with 9 upvotes promotes nothing, and with 10
\* upvotes it creates exactly one clone in the movement's blog and sets the
\* promoted flag.
C3_TenVotesAtHundred ==
    CountMembers(mmas, M(1)) = 100 =>
        /\ (last.op = "required_votes" /\ last.p = M(1)) => last.rv = 10
        /\ (CheckedUnpromoted /\ last.p = M(1) /\ last.m = "t1") =>
              /\ upvote_count(upvotes, "t1") = 9 =>
                    (~last.rv /\ clones[<<"t1", M(1)>>] = 0 /\ ~blogged["t1"])
              /\ upvote_count(upvotes, "t1") = 10 =>
                    (last.rv /\ clones[<<"t1", M(1)>>] = 1 /\ blogged["t1"])

C3_Witness ==
    /\ CountMembers(mmas, M(1)) = 100
    /\ upvote_count(upvotes, "t1") = 10
    /\ last.op = "promotion_check" /\ last.rv
    /\ clones[<<"t1", M(1)>>] = 1 /\ blogged["t1"]

\* C4: promotion is one-way and happens once: a promoted thought stays
\* promoted, no step adds a clone of it, and a promotion_check on it
\* returns None.
C4_PromotionOneWay ==
    [][\A t \in Thoughts : blogged[t] =>
          /\ blogged'[t]
          /\ \A m \in Movements :
                /\ clones'[<<t, m>>] = clones[<<t, m>>]
                /\ promotion_check(m, t) => ~last'.rv]_vars

\* a promoted thought that still has the votes is checked again
C4_Witness ==
    /\ last.op = "promotion_check" /\ last.p = M(1) /\ last.m = "t1"
    /\ ~last.rv /\ blogged["t1"] /\ clones[<<"t1", M(1)>>] = 1
    /\ upvote_count(upvotes, "t1") >= RequiredVotes(CountMembers(mmas, M(1)))
    /\ upvote_count(upvotes, "t1") > 0

\* C5: a movement clones only thoughts that sit in its own mindspace.
C5_OnlyOwnMindspace ==
    \A t \in Thoughts, m \in Movements :
        clones[<<t, m>>] > 0 => mindset(t) = mindspace_id(m)

\* floor(c/100 + 0.8/c + log_1.65 c) in floating point, for the sampled c > 0
FormulaFloor(c) ==
    CASE c = 1 -> 0 [] c = 2 -> 1 [] c = 3 -> 2 [] c = 4 -> 3 [] c = 5 -> 3
      [] c = 10 -> 4 [] c = 50 -> 8 [] c = 100 -> 10 [] c = 500 -> 17

C7_VotingDone ==
    (last.op = "voting_done" /\ last.p = M(1) /\ last.m = "t1") =>
        LET req == RequiredVotes(CountMembers(mmas, M(1)))
            u   == upvote_count(upvotes, "t1")
        IN  /\ last.raised = "none"
            /\ last.rv[2] > 0
            /\ 0 <= last.rv[1] /\ last.rv[1] <= last.rv[2]
            /\ blogged["t1"] => last.rv[1] = last.rv[2]
            /\ (~blogged["t1"] /\ req <= 0) => last.rv[1] = last.rv[2]
            /\ (~blogged["t1"] /\ req > 0) =>
                  last.rv[1] * req = last.rv[2] * (IF u < req THEN u ELSE req)

\* an unpromoted thought in a movement of one member, which requires 0 votes
C7_Witness ==
    /\ last.op = "voting_done" /\ last.rv = <<1, 1>>
    /\ ~blogged["t1"]
    /\ RequiredVotes(CountMembers(mmas, M(1))) = 0

\* the text ends, trailing whitespace aside, in a tag
EndsInTag(s) ==
    TagSpans(s) # <<>> /\ TagSpans(s)[Len(TagSpans(s))][2] = Len(rstrip(s))

\* the text without its last tag match
WithoutLastTag(s) ==
    LET sp == TagSpans(s)[Len(TagSpans(s))]
    IN  SubSeq(s, 1, sp[1] - 1) \o SubSeq(s, sp[2] + 1, Len(s))

\* C9: for a text that ends in a tag #x, find_tags reports x and returns the
\* text without that trailing #x (further trailing tags may go with it), or
\* the original text when the removal would leave nothing.
C9_TrailingTagStripped ==
    (last.op = "find_tags" /\ EndsInTag(text)) =>
        LET sp == TagSpans(text)[Len(TagSpans(text))]
            x  == SubSeq(text, sp[1] + 1, sp[2])
            r  == last.rv
        IN  /\ r.raised = "none"
            /\ \E n \in DOMAIN r.tags : r.tags[n] = x
            /\ IF WithoutLastTag(text) = <<>> THEN r.text = text
               ELSE ~OccursAt(r.text, <<"#">> \o x, sp[1])

\* C10: find_tags returns the tags in forward textual order.
C10_TagsInTextOrder ==
    last.op = "find_tags" =>
        last.rv.tags = Groups(text, TagSpans(text))

\* process_attachments has run on the example text, with bob a known
\* username and the picture URL answering 200, image/jpeg
ExampleProcessed ==
    /\ last.op = "process_attachments"
    /\ text = ExampleText
    /\ http[PicUrl] = "image"

\* the attachment set holds exactly one TagPercept(test), one Mention(bob)
\* and one LinkedPicturePercept(url)
ExamplePercepts(ps) ==
    /\ Cardinality(ps) = 3
    /\ Cardinality({x \in ps : x.kind = "tag" /\ x.key = <<"t", "e", "s", "t">>}) = 1
    /\ Cardinality({x \in ps : x.kind = "mention"
                                /\ x.key = <<Bob, IdentityByUsername(Bob)>>}) = 1
    /\ Cardinality({x \in ps : x.kind = "linkedpicture" /\ x.key = PicUrl}) = 1

\* C8 as stated: the example returns the message "pic.jpg" and the three
\* attachments.
C8_ExampleMessagePicJpg ==
    ExampleProcessed =>
        /\ last.rv.raised = "none"
        /\ last.rv.message = <<"p", "i", "c", ".", "j", "p", "g">>
        /\ ExamplePercepts(last.rv.percepts)

\* C8 amended: the example returns the message "Ok #test @bob " (the input
\* without its trailing link) and the three attachments.
C8_ExampleMessageKeepsText ==
    ExampleProcessed =>
        /\ last.rv.raised = "none"
        /\ last.rv.message = <<"O", "k", " ", "#", "t", "e", "s", "t", " ", "@", "b", "o", "b", " ">>
        /\ ExamplePercepts(last.rv.percepts)

C8_Witness ==
    /\ ExampleProcessed
    /\ last.rv.message = <<"O", "k", " ", "#", "t", "e", "s", "t", " ", "@", "b", "o", "b", " ">>
    /\ Cardinality(last.rv.percepts) = 3
    /\ \E x \in pending[1] : x.kind = "linkedpicture" /\ x.key = PicUrl

\* the n-th tag match of s is followed by a non-space character that belongs
\* to no tag match
NonTrailingTag(s, n) ==
    \E j \in (TagSpans(s)[n][2] + 1)..Len(s) :
        /\ ~IsSpace(s[j])
        /\ \A k \in DOMAIN TagSpans(s) :
              j < TagSpans(s)[k][1] \/ j > TagSpans(s)[k][2]

Alive(c) == http[Schemed(c)] \in {"image", "page"}

\* the n-th token of the text, and whether it is a link candidate
Token(n) == SubSeq(text, TokenSpans(text, 1)[n][1], TokenSpans(text, 1)[n][2])

IsCandidate(n) == LooksLikeUrl(Token(n))

\* C12: within one find_links call no normalized URL is probed twice.
C12_NoUrlProbedTwice ==
    last.op = "find_links" =>
        \A i, j \in DOMAIN last.rv.probes :
            i # j => last.rv.probes[i] # last.rv.probes[j]

\* C13: find_links never raises, whatever the probes end in, and its result
\* holds exactly the responses of status < 400, in the order of the reverse
\* scan.
C13_FailedProbesLeftOut ==
    last.op = "find_links" =>
        /\ last.rv.raised = "none"
        /\ last.rv.links =
              [n \in 1..Len(SelectSeq(reversed(Candidates(text)), Alive)) |->
                  [url   |-> Schemed(SelectSeq(reversed(Candidates(text)), Alive)[n]),
                   ctype |-> http[Schemed(SelectSeq(reversed(Candidates(text)), Alive)[n])]]]

\* the probe of the last candidate failed, the scan went on and accepted the
\* candidate before it
C13_Witness ==
    /\ last.op = "find_links"
    /\ text = Join(<<PicUrl, ShortUrl>>)
    /\ http[Schemed(ShortUrl)] = "error"
    /\ http[Schemed(PicUrl)] = "image"
    /\ last.rv.raised = "none"
    /\ last.rv.probes = <<Schemed(ShortUrl), Schemed(PicUrl)>>
    /\ last.rv.links = <<[url |-> Schemed(PicUrl), ctype |-> "image"]>>

\* C14: an accepted link that ends the text is stripped from it, and an
\* accepted link that is followed by a token which is not an accepted link
\* stays where it was.
C14_TailLinksStripped ==
    (last.op = "find_links" /\ TokenSpans(text, 1) # <<>>) =>
        LET sp == TokenSpans(text, 1)
        IN  /\ (IsCandidate(Len(sp)) /\ Alive(Token(Len(sp)))) =>
                  ~OccursAt(last.rv.text, Token(Len(sp)), sp[Len(sp)][1])
            /\ \A n \in DOMAIN sp :
                  (/\ IsCandidate(n) /\ Alive(Token(n))
                   /\ \E k \in (n + 1)..Len(sp) :
                         ~(IsCandidate(k) /\ Alive(Token(k)))) =>
                      OccursAt(last.rv.text, Token(n), sp[n][1])

\* C15: process_attachments never returns two distinct TagPercept objects
\* for one tag string.
C15_OneTagPerceptPerTitle ==
    last.op = "process_attachments" =>
        \A x, y \in last.rv.percepts :
            (x.kind = "tag" /\ y.kind = "tag" /\ x.key = y.key) => x = y

\* no two rows of the store hold the same URL
OneRowPerUrl == \A r1, r2 \in store : r1.url = r2.url => r1 = r2

C17_AtomicGetOrCreate ==
    /\ OneRowPerUrl
    /\ last.raised # "IntegrityError"

\* C18: every toggle_following(ident) call flips the edge persona -> ident
\* and no other (so a second call restores the follow set), returns TRUE
\* exactly when the edge now exists and leaves no memoized frontpage_sources
\* of the persona; the frontpage_sources read that follows it returns the
\* sources of the current follow set.
C18_ToggleFollowing ==
    [][\A p \in Personas :
          /\ \A ident \in Personas \cup Movements :
                (/\ last'.op = "toggle_following"
                 /\ last'.p = p /\ last'.m = ident) =>
                    /\ (ident \in blogs_followed'[p]) # (ident \in blogs_followed[p])
                    /\ blogs_followed'[p] \ {ident} = blogs_followed[p] \ {ident}
                    /\ \A q \in Personas \ {p} :
                          blogs_followed'[q] = blogs_followed[q]
                    /\ FollowFlip(blogs_followed', p, ident) = blogs_followed
                    /\ last'.rv = (ident \in blogs_followed'[p])
                    /\ cache'[<<"frontpage_sources", p>>] = {}
          /\ (/\ last.op = "toggle_following" /\ last.p = p
              /\ last'.op = "frontpage_sources" /\ last'.p = p) =>
                last'.rv = QueryFrontpageSources(mmas', blogs_followed', p)]_vars

\* the first persona has read its sources, then unfollowed its own movement,
\* then read them again
C18_Witness ==
    /\ last.op = "frontpage_sources" /\ last.p = P(1)
    /\ M(1) \notin blogs_followed[P(1)]
    /\ active_member(mmas, M(1), P(1))
    /\ last.rv = QueryFrontpageSources(mmas, blogs_followed, P(1))
    /\ mindspace_id(M(1)) \notin last.rv
    /\ cache[<<"frontpage_sources", P(1)>>] = {last.rv}

\* C19: after a toggle_movement_membership call that created, re-activated
\* or deactivated a membership record, the member_count of that record's
\* movement and the movements, repost_mindsets and frontpage_sources of that
\* record's persona are not memoized.
C19_RecordCachesReset ==
    (last.op = "toggle_movement_membership" /\ last.raised = "none") =>
        /\ cache[<<"member_count", mmas[last.rv].movement>>] = {}
        /\ mmas[last.rv].persona \in Personas =>
              \A f \in {"movements", "repost_mindsets", "frontpage_sources"} :
                  cache[<<f, mmas[last.rv].persona>>] = {}

\* C20: when the admin of a movement, holding an active membership, calls
\* toggle_movement_membership on that movement, the call raises
\* NotImplementedError and changes no membership record, follow edge or
\* cache entry.
C20_AdminCannotToggle ==
    [][\A p \in Personas, m \in Movements :
          (/\ p = admin_id(m)
           /\ active_member(mmas, m, p)
           /\ last'.op = "toggle_movement_membership"
           /\ last'.p = p /\ last'.m = m) =>
              /\ last'.raised = "NotImplementedError"
              /\ UNCHANGED <<mmas, blogs_followed, cache>>]_vars

\* C21: on a private movement, when the acting user is not the admin, a
\* call for a persona who is not an active member raises UnauthorizedError
\* and leaves the persona inactive unless the invitation code is non-empty
\* and equals the code of a membership record.
C21_PrivateJoinNeedsCode ==
    [][(/\ last'.op = "toggle_movement_membership"
        /\ private(last'.m)
        /\ last'.arg[1] # admin_id(last'.m)
        /\ ~active_member(mmas, last'.m, last'.p)
        /\ ~(/\ last'.arg[2] \notin {None, ""}
             /\ \E i \in DOMAIN mmas :
                   mmas[i].invitation_code = last'.arg[2])) =>
            /\ last'.raised = "UnauthorizedError"
            /\ ~active_member(mmas', last'.m, last'.p)]_vars

\* C25: a toggle_movement_membership(movement) call by persona P leaves every
\* membership record of another persona or of another movement as it was.
C25_OnlyOwnRecord ==
    [][last'.op = "toggle_movement_membership" =>
          \A i \in DOMAIN mmas :
              (mmas[i].persona # last'.p \/ mmas[i].movement # last'.m) =>
                  mmas'[i] = mmas[i]]_vars

\* C26: there is at most one record per (movement, persona) pair and no
\* toggle_movement_membership call tries to create a second one.
C26_OneRecordPerPair ==
    /\ UniquePairs(mmas)
    /\ last.op = "toggle_movement_membership" =>
          last.raised # "IntegrityError"

\* C27: a toggle_movement_membership call that raises UnauthorizedError
\* leaves the follow edges, the membership records and the memoized entries
\* as they were.
C27_UnauthorizedChangesNothing ==
    [][(/\ last'.op = "toggle_movement_membership"
        /\ last'.raised = "UnauthorizedError") =>
            UNCHANGED <<mmas, blogs_followed, cache>>]_vars

C23_OneActiveUpvotePerPair ==
    \A a \in Personas, t \in Thoughts :
        LET n == Cardinality({i \in DOMAIN upvotes[t] :
                     upvotes[t][i].author = a /\ upvotes[t][i].active})
        IN  n <= 1 /\ (n = 1 <=> toggles[<<a, t>>] = 1)

\* both personas hold an upvote on a thought the first one has toggled
\* three times
C23_Witness ==
    /\ last.op = "toggle_upvote"
    /\ ActiveAuthors(upvotes, "t1") = {P(1), P(2)}
    /\ Len(upvotes["t1"]) = 2
    /\ upvotes["t1"][1].author = P(2)
    /\ ActiveAuthors(upvotes, "t2") = {}
    /\ Len(upvotes["t2"]) = 1

\* the mention a token of at most 81 characters holds: the text after its
\* first "@" that has three or more characters behind it, when that text is
\* a username
MentionOfToken(tok) ==
    LET I == {i \in 1..Len(tok) : tok[i] = "@" /\ Len(tok) - i >= MinMentionLen}
        name == SubSeq(tok, Min(I) + 1, Len(tok))
    IN  IF I = {} THEN <<>>
        ELSE IF IdentityByUsername(name) = NoPersona THEN <<>>
        ELSE <<<<name, IdentityByUsername(name)>>>>

\* the mentions of the tokens n, n + 1, ... of the text, in textual order
RECURSIVE MentionsFrom(_)
MentionsFrom(n) ==
    IF n > Len(TokenSpans(text, 1)) THEN <<>>
    ELSE MentionOfToken(Token(n)) \o MentionsFrom(n + 1)

\* C24: find_mentions returns, in textual order, exactly the resolved
\* mentions and drops the others; process_attachments turns exactly these
\* into Mention percepts and every token with an "@" is still in the message
\* where it was.
C24_MentionsLeaveText ==
    /\ last.op = "find_mentions" => last.rv = MentionsFrom(1)
    /\ last.op = "process_attachments" =>
          /\ last.rv.raised = "none"
          /\ {x.key : x \in {y \in last.rv.percepts : y.kind = "mention"}}
                = {MentionsFrom(1)[n] : n \in DOMAIN MentionsFrom(1)}
          /\ Cardinality({y \in last.rv.percepts : y.kind = "mention"})
                = Len(MentionsFrom(1))
          /\ \A n \in DOMAIN TokenSpans(text, 1) :
                (\E i \in DOMAIN Token(n) : Token(n)[i] = "@") =>
                    OccursAt(last.rv.message, Token(n),
                             TokenSpans(text, 1)[n][1])

\* "@bob @bobo x@amy" was scanned: bob and amy resolve, bobo does not
C24_Witness ==
    /\ last.op = "find_mentions"
    /\ text = Join(<<<<"@">> \o Bob, <<"@">> \o Bob \o <<"o">>,
                     <<"x", "@">> \o Amy>>)
    /\ last.rv = <<<<Bob, P(1)>>, <<Amy, P(2)>>>>

\* C29: required_votes is at least 1 for every member count, and no
\* promotion_check promotes a thought that has no upvote.
C29_AtLeastOneVote ==
    /\ last.op = "required_votes" => last.rv >= 1
    /\ (last.op = "promotion_check" /\ last.rv) =>
          upvote_count(upvotes, last.m) > 0

\* promotion_check(thought) on the movement would promote the thought now
WouldPromote(m, t) ==
    /\ PromotionCandidate(blogged[t], mindset(t))
    /\ EnoughVotes(upvote_count(upvotes, t),
                   RequiredVotes(Memo(cache, <<"member_count", m>>,
                                      CountMembers(mmas, m))))

\* C30: for an unpromoted thought of the movement's mindspace, voting_done
\* returns 1 exactly when promotion_check would promote the thought.
C30_DoneIffPromotable ==
    (/\ last.op = "voting_done"
     /\ ~blogged[last.m]
     /\ mindset(last.m) = mindspace_id(last.p)) =>
        ((last.raised = "none" /\ last.rv[1] = last.rv[2])
            <=> WouldPromote(last.p, last.m))

\* 11 upvotes where 100 members require 10: the ratio is capped at 1
C30_Witness ==
    /\ last.op = "voting_done" /\ last.rv = <<1, 1>>
    /\ ~blogged["t1"]
    /\ CountMembers(mmas, M(1)) = 100
    /\ upvote_count(upvotes, "t1") = 11

\* C28: however two promotion checks of the same thought interleave, the
\* thought has at most one clone in the movement's blog and at most one
\* promotion message was sent.
C28_OnePromotion ==
    /\ \A t \in Thoughts, m \in Movements : clones[<<t, m>>] <= 1
    /\ sent <= 1

====
